---- MODULE Spec2Model ----
(***************************************************************************)
(* The scan-classify-act pipeline of the e-mail labeler:                   *)
(*   app/poller.py      scheduler loop, run_now trigger, scan of accounts  *)
(*   app/llm_client.py  classify_email_batch                               *)
(*   app/db.py          accounts, prompts, processed_emails                *)
(*   app/gmail_client.py provider calls (each may return or raise)         *)
(*   app/server.py      the operator's routes (rules, settings, accounts)  *)
(* Thread 0 is the scheduler loop (_loop); threads 1..MaxRunNow are the    *)
(* threads that run_now() spawns, one per trigger.                         *)
(* Specifications:                                                         *)
(*   Spec          the loop, run_now threads and rule edits, concurrently  *)
(*   SpecScan      the loop alone, over every stored rule table            *)
(*   SpecLoop      the loop over a further cycle, and stop() (fair)        *)
(*   SpecFaults    the loop with storage calls that may raise              *)
(*   SpecOperator  the loop beside an operator editing the tables          *)
(*   SpecRestart   reordering of the rules and restarts of the process     *)
(*   SpecStartStop the loop, stop() and start() (fair)                     *)
(*   SpecDelete    the loop beside an operator removing accounts           *)
(*   SpecCycle     one cycle with every call returning or raising (fair)   *)
(***************************************************************************)
EXTENDS Integers, Sequences, FiniteSets, Bags, TLC

\* ---- bounds ----
NumAccounts == 2
NumMsgs == 2
NumPrompts == 2
MaxCycles == 1
MaxRunNow == 1
MaxEdits == 1

\* ---- constants of the program ----
\* config.POLL_INTERVAL (the default of the environment variable)
POLL_INTERVAL == 300
\* server.api_update_settings rejects a poll_interval below 30
MinPollInterval == 30
\* db.init_db: INSERT OR IGNORE INTO settings ... ('poll_interval', '300')
StoredPollInterval == 300

AccountIds == 1..NumAccounts
MsgIds == 1..NumMsgs
PromptIds == 1..NumPrompts
LoopThread == 0
Threads == 0..MaxRunNow
NULL == 0
Labels == {"L1", "L2"}

VARIABLES
  db_accounts,    \* accounts table: id -> [active, last_scan_at, credentials_json]
  db_prompts,     \* prompts table: set of rows
  db_processed,   \* processed_emails table: bag of rows <<account_id, message_id>>
  inbox,          \* provider side: account id -> ids the message listing returns
  status,         \* poller._status
  th,             \* per thread: position and locals of _loop/_scan_all_accounts/_scan_account
  cycles,         \* number of cycles the loop has started
  triggers,       \* number of run_now() calls made
  edits,          \* number of prompt edits made by the operator
  arrived_busy,   \* history: thread -> a scan body was executing when its trigger arrived
  stop_event,     \* poller._stop_event is set
  db_settings,    \* settings table: the value stored under 'poll_interval'
  start_requested \* history: start() was called since the last stop()

vars == <<db_accounts, db_prompts, db_processed, inbox, status, th, cycles,
          triggers, edits, arrived_busy, stop_event, db_settings, start_requested>>

\* ---------------------------------------------------------------------------
\* rows of the prompts table
\* ---------------------------------------------------------------------------
PromptRow(id, label, archive, spam, trash, order, stop, account, active) ==
  [id |-> id, label_name |-> label, action_archive |-> archive,
   action_spam |-> spam, action_trash |-> trash, sort_order |-> order,
   stop_processing |-> stop, account_id |-> account, active |-> active]

\* mutant: ORDER BY id ASC
ByIdOnly(x, y) == x.id < y.id

\* ORDER BY sort_order ASC, id ASC
Before(x, y) ==
  \/ x.sort_order < y.sort_order
  \/ (x.sort_order = y.sort_order /\ x.id < y.id)

RECURSIVE SortRows(_)
SortRows(S) ==
  IF S = {} THEN <<>>
  ELSE LET m == CHOOSE x \in S : \A y \in S : x = y \/ Before(x, y)
       IN <<m>> \o SortRows(S \ {m})

\* mutant: no WHERE clause
list_all_prompts(account_id) == SortRows(db_prompts)

\* db.list_prompts(account_id=...)
list_prompts(account_id) ==
  SortRows({p \in db_prompts : p.account_id = account_id \/ p.account_id = NULL})

RECURSIVE DescIds(_)
DescIds(S) ==
  IF S = {} THEN <<>>
  ELSE LET m == CHOOSE x \in S : \A y \in S : y <= x
       IN <<m>> \o DescIds(S \ {m})

\* db.list_accounts(): ORDER BY added_at DESC (ids grow with added_at)
list_accounts == DescIds(DOMAIN db_accounts)

\* db.is_processed: SELECT 1 ... WHERE account_id=? AND message_id=?
is_processed(account_id, message_id) == BagIn(<<account_id, message_id>>, db_processed)

\* mutant: a plain INSERT, with no UNIQUE constraint to ignore
InsertRow(account_id, message_id) ==
  db_processed (+) SetToBag({<<account_id, message_id>>})

\* db.mark_processed: INSERT OR IGNORE under UNIQUE(account_id, message_id),
\* one statement in one transaction
mark_processed(account_id, message_id) ==
  IF BagIn(<<account_id, message_id>>, db_processed) THEN db_processed
  ELSE db_processed (+) SetToBag({<<account_id, message_id>>})

\* the credential blob of an account: the access token it carries (numbered by
\* issue) and whether that token has expired; a blob holds a refresh token
Blob(token, expired) == [token |-> token, expired |-> expired]
NoBlob == Blob(0, FALSE)

\* gmail_client.get_service, the blob it returns: creds.refresh() issues a new
\* token when the blob's token is expired; creds.to_json() of a blob that was
\* not refreshed is taken to give the stored text back
refreshed_creds(credentials_json) ==
  IF credentials_json.expired THEN Blob(credentials_json.token + 1, FALSE)
  ELSE credentials_json

\* mutant: the refreshed blob is not written
CredentialsKept(account_id, credentials_json) == db_accounts

\* db.update_account_credentials
update_account_credentials(account_id, credentials_json) ==
  IF account_id \in DOMAIN db_accounts
    THEN [db_accounts EXCEPT ![account_id].credentials_json = credentials_json]
    ELSE db_accounts

\* db.update_last_scan: last_scan_at = datetime('now'); the timestamp is kept
\* as the number of times it was written (0 = NULL)
update_last_scan(account_id) ==
  IF account_id \in DOMAIN db_accounts
    THEN [db_accounts EXCEPT ![account_id].last_scan_at = @ + 1]
    ELSE db_accounts

\* db.delete_account, one transaction: DELETE FROM accounts WHERE id = ?
accounts_without(account_id) ==
  [a \in DOMAIN db_accounts \ {account_id} |-> db_accounts[a]]

\* ... and DELETE FROM processed_emails WHERE account_id = ?
processed_without(account_id) ==
  [row \in {q \in BagToSet(db_processed) : q[1] # account_id} |-> db_processed[row]]

\* db.update_prompt: every column but id and sort_order is overwritten
update_prompt(prompt_id, data) ==
  {IF p.id = prompt_id
     THEN PromptRow(p.id, data.label_name, data.action_archive, data.action_spam,
                    data.action_trash, p.sort_order, data.stop_processing,
                    data.account_id, data.active)
     ELSE p : p \in db_prompts}

\* request bodies of POST /api/prompts/reorder: the non-empty lists of rule
\* ids without repetition
OrderedIdLists ==
  {ids \in UNION {[1..n -> PromptIds] : n \in 1..NumPrompts} :
     \A i \in DOMAIN ids, j \in DOMAIN ids : i # j => ids[i] # ids[j]}

\* db.reorder_prompts: UPDATE prompts SET sort_order = i WHERE id = pid, for
\* i, pid in enumerate(ordered_ids); i starts at 0
reorder_prompts(ordered_ids) ==
  {IF \E i \in DOMAIN ordered_ids : ordered_ids[i] = p.id
     THEN [p EXCEPT !.sort_order = (CHOOSE i \in DOMAIN ordered_ids : ordered_ids[i] = p.id) - 1]
     ELSE p : p \in db_prompts}

\* db._migrate, line 93: UPDATE prompts SET sort_order = id WHERE sort_order = 0
\* (the ALTER TABLE statements fail on a current schema and are passed over)
migrate ==
  {IF p.sort_order = 0 THEN [p EXCEPT !.sort_order = p.id] ELSE p : p \in db_prompts}

\* ---------------------------------------------------------------------------
\* llm_client.classify_email_batch
\* ---------------------------------------------------------------------------
\* JSON values the backend may put under a key: true, false, the string "false"
JsonValues == {"true", "false", "str"}
\* keys of the reply object: rule ids, an id of no submitted rule, a key int() rejects
UnknownId == NumPrompts + 1
BadKey == -1

\* Python bool(v): a non-empty string is truthy
PyBool(v) == v \in {"true", "str"}

EmptyDict == [k \in {} |-> FALSE]

\* replies of the backend: a transport failure, text that is no JSON, or an
\* object: booleans under any subset of the rule ids, a string under the first
\* rule's id, true under the last rule's id and under a key of no rule, a key
\* int() rejects
LLMReplies ==
  {[kind |-> k, content |-> EmptyDict] : k \in {"timeout", "network", "http_status", "not_json"}}
  \cup {[kind |-> "object", content |-> c] :
          c \in UNION {[K -> JsonValues \ {"str"}] : K \in SUBSET PromptIds}}
  \cup {[kind |-> "object", content |-> [k \in {1} |-> "str"]],
        [kind |-> "object", content |-> [k \in {NumPrompts, UnknownId} |-> "true"]],
        [kind |-> "object", content |-> [k \in {BadKey} |-> "true"]]}

\* mutant: the fallback answers true for every rule
AllTrue(prompts) == [k \in {prompts[i].id : i \in 1..Len(prompts)} |-> TRUE]

\* lines 98/103/108: {p["id"]: False for p in prompts}
AllFalse(prompts) == [k \in {prompts[i].id : i \in 1..Len(prompts)} |-> FALSE]

\* line 91: {int(k): bool(v) for k, v in result.items()} raises on a key int() rejects
ParseRaises(reply) == reply.kind = "not_json" \/ BadKey \in DOMAIN reply.content

LLMFailed(reply) ==
  reply.kind \in {"timeout", "network", "http_status"} \/ ParseRaises(reply)

classify_email_batch(reply, prompts) ==
  IF prompts = <<>> THEN EmptyDict
  ELSE IF LLMFailed(reply) THEN AllFalse(prompts)
  ELSE [k \in DOMAIN reply.content |-> PyBool(reply.content[k])]

\* db.add_log(level, message): the level and the fixed head of the message
LogEntry(level, message) == <<level, message>>

\* the entries classify_email_batch writes: lines 92-93 for a parsed reply,
\* line 96 for a reply that does not parse, line 100 for a failed request
\* (requests.exceptions.RequestException: timeout, connection, HTTP status)
classify_log(reply, prompts) ==
  IF prompts = <<>> THEN <<>>
  ELSE IF reply.kind \in {"timeout", "network", "http_status"}
    THEN <<LogEntry("ERROR", "LLM request failed")>>
  ELSE IF ParseRaises(reply) THEN <<LogEntry("ERROR", "LLM parse error")>>
  ELSE <<LogEntry("DEBUG", "LLM raw response"), LogEntry("DEBUG", "LLM parsed")>>

\* mutant: a rule the reply does not mention counts as matched
MissingMeansTrue(email_results, prompt_id) ==
  IF prompt_id \in DOMAIN email_results THEN email_results[prompt_id] ELSE TRUE

\* email_results.get(prompt_id, False)
should_label(email_results, prompt_id) ==
  IF prompt_id \in DOMAIN email_results THEN email_results[prompt_id] ELSE FALSE

\* mutant: the chain tests the flags in the opposite order
ArchiveFirst(prompt) ==
  IF prompt.action_archive THEN "archive_email"
  ELSE IF prompt.action_trash THEN "trash_email"
  ELSE IF prompt.action_spam THEN "spam_email"
  ELSE "none"

\* lines 110-118: the if/elif chain over the action flags
DestructiveAction(prompt) ==
  IF prompt.action_spam THEN "spam_email"
  ELSE IF prompt.action_trash THEN "trash_email"
  ELSE IF prompt.action_archive THEN "archive_email"
  ELSE "none"

\* mutant: a rule that did not match is logged as an error
SkipLoggedAsError(prompt) == LogEntry("ERROR", "Skipped")

\* lines 129-132: the entry for a rule that did not match
SkipLog(prompt) == LogEntry("DEBUG", "Skipped")

\* mutant: the stop flag is never raised
StopNever(prompt) == FALSE

\* lines 120-122
StopAfter(prompt) == prompt.stop_processing

\* ---------------------------------------------------------------------------
\* threads
\* ---------------------------------------------------------------------------
\* locals of _scan_account, cleared when the call returns
NoScanLocals(r) ==
  [r EXCEPT !.account_id = NULL, !.prompts = <<>>, !.emails = <<>>, !.fi = 0,
            !.new_emails = <<>>, !.ei = 0, !.pi = 0, !.stop = FALSE,
            !.email_results = EmptyDict, !.label_cache = {}, !.trace = <<>>,
            !.llm_requests = 0, !.llm_outcome = "none", !.raised = 0,
            !.refreshed = NoBlob, !.label_calls = EmptyBag, !.email_log = <<>>,
            !.llm_raw = EmptyDict]

NoThread ==
  [pc |-> "idle", accounts |-> <<>>, ai |-> 0, account_id |-> NULL,
   prompts |-> <<>>, emails |-> <<>>, fi |-> 0, new_emails |-> <<>>, ei |-> 0,
   pi |-> 0, stop |-> FALSE, email_results |-> EmptyDict, label_cache |-> {},
   trace |-> <<>>, llm_requests |-> 0, llm_outcome |-> "none",
   raised |-> 0,
   scanned |-> {}, skipped |-> {}, failed |-> {},
   account_creds |-> <<>>, refreshed |-> NoBlob, interval |-> 0,
   prev_failed |-> {},
   label_calls |-> EmptyBag, email_log |-> <<>>, llm_raw |-> EmptyDict]

\* positions inside _scan_account
AccountPcs == {"get_service", "fetch", "filter", "no_new_emails", "prefetch",
               "classify", "rule", "apply_label", "action", "mark",
               "update_last_scan", "scan_failed"}
\* positions at which one new email is being handled (lines 87-138)
EmailPcs == {"rule", "apply_label", "action", "mark"}
\* positions of a thread that has entered _scan_all_accounts and not returned
BodyPcs == AccountPcs \cup {"account", "return"}

Executing(t) == th[t].pc \in BodyPcs

SetThread(t, r) == th' = [th EXCEPT ![t] = r]

\* the e-mail the for loop of line 87 is at
CurrentEmail(r) == r.new_emails[r.ei]
\* the rule the for loop of line 94 (or 79) is at
CurrentPrompt(r) == r.prompts[r.pi]

Event(op, prompt_id, ok) == <<op, prompt_id, ok>>

\* ---------------------------------------------------------------------------
\* initial states
\* ---------------------------------------------------------------------------
\* the rule table the operator has stored, for the specification of the
\* whole process: two global rules in creation order
StoredPrompts ==
  {PromptRow(i, IF i = 1 THEN "L1" ELSE "L2", i = 1, FALSE, FALSE, i, FALSE, NULL, TRUE)
     : i \in PromptIds}

\* request bodies of PUT /api/prompts/<id>
PromptInputs ==
  {[label_name |-> "L2", action_archive |-> FALSE, action_spam |-> TRUE,
    action_trash |-> FALSE, stop_processing |-> TRUE, account_id |-> NULL,
    active |-> TRUE],
   [label_name |-> "L1", action_archive |-> TRUE, action_spam |-> FALSE,
    action_trash |-> FALSE, stop_processing |-> FALSE, account_id |-> NULL,
    active |-> FALSE]}

\* rule tables for the specification of one scheduler thread: the first rule
\* is scoped to account 1 and takes every combination of the action flags and
\* of stop_processing, the later ones are global and vary in label, action,
\* stop_processing and active
FirstRules ==
  {PromptRow(1, "L1", ar, sp, tr, 1, st, 1, TRUE) :
     ar \in BOOLEAN, sp \in BOOLEAN, tr \in BOOLEAN, st \in BOOLEAN}

LaterRules(i) ==
  {PromptRow(i, "L2", TRUE, FALSE, FALSE, i, FALSE, NULL, TRUE),
   PromptRow(i, "L1", FALSE, FALSE, TRUE, i, TRUE, NULL, TRUE),
   PromptRow(i, "L2", FALSE, FALSE, FALSE, i, FALSE, NULL, FALSE)}

RECURSIVE PromptTables(_)
PromptTables(n) ==
  IF n = 0 THEN {{}}
  ELSE IF n = 1 THEN {{p} : p \in FirstRules}
  ELSE {T \cup {p} : T \in PromptTables(n - 1), p \in LaterRules(n)}

\* rule tables after db.reorder_prompts: the rules in reverse order of
\* creation (sort_order 0.. from the last id down), and all rules at sort_order
\* 0 (each reordered alone in the list of its own scope)
SortOrders ==
  {[i \in PromptIds |-> NumPrompts - i], [i \in PromptIds |-> 0]}

ReorderedTables ==
  {{PromptRow(i, IF i = 1 THEN "L1" ELSE "L2", FALSE, FALSE, FALSE, order[i],
              FALSE, NULL, TRUE) : i \in PromptIds} : order \in SortOrders}

\* ledgers an installation may start a cycle with: empty, or left by earlier
\* cycles (the last account wholly handled, the first message of account 1)
Ledgers ==
  {{}, {<<NumAccounts, 1>>, <<1, 1>>}}

\* accounts with the ledger's pairs were scanned before
AccountsAfter(ledger) ==
  [a \in AccountIds |->
     [active |-> TRUE,
      last_scan_at |-> IF \E m \in MsgIds : <<a, m>> \in ledger THEN 1 ELSE 0,
      credentials_json |-> Blob(1, FALSE)]]

InitCommon ==
  /\ status = [running |-> FALSE, last_run |-> "None", next_run |-> "None"]
  /\ th = [t \in Threads |-> IF t = LoopThread THEN [NoThread EXCEPT !.pc = "loop_start"]
                                               ELSE NoThread]
  /\ cycles = 0
  /\ triggers = 0
  /\ edits = 0
  /\ arrived_busy = [t \in Threads |-> FALSE]
  /\ stop_event = FALSE
  /\ db_settings = StoredPollInterval
  /\ start_requested = FALSE

Init ==
  /\ InitCommon
  /\ db_processed = EmptyBag
  /\ db_accounts = AccountsAfter({})
  /\ db_prompts = StoredPrompts
  /\ inbox = [a \in AccountIds |-> IF a = 1 THEN {1} ELSE {}]

InitScan ==
  /\ InitCommon
  /\ \E ledger \in Ledgers :
       /\ db_processed = SetToBag(ledger)
       /\ db_accounts = AccountsAfter(ledger)
  /\ db_prompts \in PromptTables(NumPrompts) \cup ReorderedTables
  /\ inbox = [a \in AccountIds |-> IF a = 1 THEN MsgIds ELSE {1}]

\* ---------------------------------------------------------------------------
\* poller._loop and poller.run_now
\* ---------------------------------------------------------------------------
OtherScanExecuting(t) == \E u \in Threads \ {t} : Executing(u)

\* line 33
LoopStart ==
  /\ th[LoopThread].pc = "loop_start"
  /\ status' = [status EXCEPT !.running = TRUE]
  /\ SetThread(LoopThread, [th[LoopThread] EXCEPT !.pc = "loop"])
  /\ UNCHANGED <<db_accounts, db_prompts, db_processed, inbox, cycles, triggers,
                 edits, arrived_busy, stop_event, db_settings,
                 start_requested>>

\* mutant: the while loop does not test the stop event
StartCycleUnconditional ==
  /\ th[LoopThread].pc = "loop"
  /\ cycles' = cycles + 1
  /\ SetThread(LoopThread, [th[LoopThread] EXCEPT !.pc = "scan_all"])
  /\ arrived_busy' = [arrived_busy EXCEPT ![LoopThread] = OtherScanExecuting(LoopThread)]
  /\ UNCHANGED <<db_accounts, db_prompts, db_processed, inbox, status, triggers, edits,
                 stop_event, db_settings, start_requested>>

\* lines 34-35: the stop event is not set, the loop calls _scan_all_accounts
StartCycle ==
  /\ th[LoopThread].pc = "loop"
  /\ ~stop_event
  /\ cycles' = cycles + 1
  /\ SetThread(LoopThread, [th[LoopThread] EXCEPT !.pc = "scan_all"])
  /\ arrived_busy' = [arrived_busy EXCEPT ![LoopThread] = OtherScanExecuting(LoopThread)]
  /\ UNCHANGED <<db_accounts, db_prompts, db_processed, inbox, status, triggers, edits,
                 stop_event, db_settings, start_requested>>

\* the first MaxCycles cycles of the loop
LoopIterate == cycles < MaxCycles /\ StartCycle

\* one cycle more, followed by the specifications of the scheduler's life
LoopIterateAgain ==
  /\ cycles >= MaxCycles
  /\ cycles < MaxCycles + 1
  /\ StartCycle

\* line 36: the interval the loop waits for
interval_of_cycle == POLL_INTERVAL

\* lines 36-38: next_run is set; the wait ends when the interval has passed or
\* the stop event is set
LoopWait ==
  /\ th[LoopThread].pc = "wait"
  /\ status' = [status EXCEPT !.next_run = "time"]
  /\ SetThread(LoopThread, [th[LoopThread] EXCEPT !.interval = interval_of_cycle,
                                                  !.pc = "loop"])
  /\ UNCHANGED <<db_accounts, db_prompts, db_processed, inbox, cycles, triggers,
                 edits, arrived_busy, stop_event, db_settings,
                 start_requested>>

\* lines 34, 39: the stop event is set, the while loop ends
LoopExit ==
  /\ th[LoopThread].pc = "loop"
  /\ stop_event
  /\ status' = [status EXCEPT !.running = FALSE]
  /\ SetThread(LoopThread, [th[LoopThread] EXCEPT !.pc = "exited"])
  /\ UNCHANGED <<db_accounts, db_prompts, db_processed, inbox, cycles, triggers,
                 edits, arrived_busy, stop_event, db_settings,
                 start_requested>>

\* poller.stop
Stop ==
  /\ ~stop_event
  /\ stop_event' = TRUE
  /\ start_requested' = FALSE
  /\ UNCHANGED <<db_accounts, db_prompts, db_processed, inbox, status, th, cycles,
                 triggers, edits, arrived_busy, db_settings>>

\* server.api_delete_account -> db.delete_account
ApiDeleteAccount ==
  /\ edits < MaxEdits
  /\ edits' = edits + 1
  /\ \E a \in DOMAIN db_accounts :
       /\ db_accounts' = accounts_without(a)
       /\ db_processed' = processed_without(a)
  /\ UNCHANGED <<db_prompts, inbox, status, th, cycles, triggers, arrived_busy,
                 stop_event, db_settings, start_requested>>

\* the scheduler thread object exists and is_alive()
LoopAlive == th[LoopThread].pc \notin {"exited", "crashed"}

\* poller.start, lines 15-21: nothing is done while the previous thread is
\* alive; otherwise the stop event is cleared and a new thread runs _loop
Start ==
  /\ start_requested' = TRUE
  /\ IF LoopAlive
       THEN UNCHANGED <<th, stop_event>>
       ELSE /\ stop_event' = FALSE
            /\ SetThread(LoopThread, [NoThread EXCEPT !.pc = "loop_start"])
  /\ UNCHANGED <<db_accounts, db_prompts, db_processed, inbox, status, cycles,
                 triggers, edits, arrived_busy, db_settings>>

\* server.api_scan_now -> poller.run_now: a new thread with target _scan_all_accounts
RunNow ==
  /\ triggers < MaxRunNow
  /\ triggers' = triggers + 1
  /\ SetThread(triggers + 1, [NoThread EXCEPT !.pc = "scan_all"])
  /\ arrived_busy' = [arrived_busy EXCEPT ![triggers + 1] = OtherScanExecuting(triggers + 1)]
  /\ UNCHANGED <<db_accounts, db_prompts, db_processed, inbox, status, cycles, edits,
                 stop_event, db_settings, start_requested>>

\* server.api_update_prompt -> db.update_prompt
ApiUpdatePrompt ==
  /\ edits < MaxEdits
  /\ edits' = edits + 1
  /\ \E p \in db_prompts, data \in PromptInputs :
       db_prompts' = update_prompt(p.id, data)
  /\ UNCHANGED <<db_accounts, db_processed, inbox, status, th, cycles, triggers,
                 arrived_busy, stop_event, db_settings, start_requested>>

\* request bodies of POST /api/settings: one below the minimum, one above
SettingInputs == {MinPollInterval - 1, MinPollInterval + 1}

\* server.api_update_settings: a value below the minimum is answered 400 and
\* nothing is stored
ApiUpdateSettings ==
  /\ edits < MaxEdits
  /\ edits' = edits + 1
  /\ \E val \in SettingInputs :
       db_settings' = IF val < MinPollInterval THEN db_settings ELSE val
  /\ UNCHANGED <<db_accounts, db_prompts, db_processed, inbox, status, th, cycles,
                 triggers, arrived_busy, stop_event, start_requested>>

\* server.api_toggle_account
ApiToggleAccount ==
  /\ edits < MaxEdits
  /\ edits' = edits + 1
  /\ \E a \in DOMAIN db_accounts :
       db_accounts' = [db_accounts EXCEPT ![a].active = ~@]
  /\ UNCHANGED <<db_prompts, db_processed, inbox, status, th, cycles, triggers,
                 arrived_busy, stop_event, db_settings, start_requested>>

\* server.api_reorder_prompts -> db.reorder_prompts
ApiReorderPrompts ==
  /\ edits < MaxEdits
  /\ edits' = edits + 1
  /\ \E ordered_ids \in OrderedIdLists :
       db_prompts' = reorder_prompts(ordered_ids)
  /\ UNCHANGED <<db_accounts, db_processed, inbox, status, th, cycles, triggers,
                 arrived_busy, stop_event, db_settings, start_requested>>

\* the process is started again: server.create_app runs db.init_db (the
\* tables exist, the poll_interval row exists, _migrate runs) and
\* poller.start on fresh module state
CreateApp ==
  /\ db_prompts' = migrate
  /\ status' = [running |-> FALSE, last_run |-> "None", next_run |-> "None"]
  /\ th' = [t \in Threads |-> IF t = LoopThread THEN [NoThread EXCEPT !.pc = "loop_start"]
                                                ELSE NoThread]
  /\ arrived_busy' = [t \in Threads |-> FALSE]
  /\ stop_event' = FALSE
  /\ UNCHANGED <<db_accounts, db_processed, inbox, cycles, triggers, edits,
                 db_settings, start_requested>>

\* ---------------------------------------------------------------------------
\* poller._scan_all_accounts
\* ---------------------------------------------------------------------------
\* mutant: the account list is not filtered
AnyAccount(a) == TRUE

\* mutant: the rule list of line 51 is not filtered
AnyPrompt(p) == TRUE

IsActiveAccount(a) == db_accounts[a].active
IsActivePrompt(p) == p.active

\* mutant: a cycle that finds no active account stamps every account as scanned
ScanAllAccountsStamps(t) ==
  /\ th[t].pc = "scan_all"
  /\ status' = [status EXCEPT !.last_run = "time"]
  /\ LET accounts == SelectSeq(list_accounts, IsActiveAccount)
     IN /\ SetThread(t, [th[t] EXCEPT !.accounts = accounts,
                                      !.account_creds =
                                        [a \in DOMAIN db_accounts |->
                                           db_accounts[a].credentials_json],
                                      !.ai = IF accounts = <<>> THEN 0 ELSE 1,
                                      !.pc = IF accounts = <<>> THEN "return" ELSE "account"])
        /\ db_accounts' = IF accounts = <<>>
                            THEN [a \in DOMAIN db_accounts |->
                                    [db_accounts[a] EXCEPT !.last_scan_at = @ + 1]]
                            ELSE db_accounts
  /\ UNCHANGED <<db_prompts, db_processed, inbox, cycles, triggers,
                 edits, arrived_busy, stop_event, db_settings,
                 start_requested>>

\* lines 43-48
ScanAllAccounts(t) ==
  /\ th[t].pc = "scan_all"
  /\ status' = [status EXCEPT !.last_run = "time"]
  /\ LET accounts == SelectSeq(list_accounts, IsActiveAccount)
     IN SetThread(t, [th[t] EXCEPT !.accounts = accounts,
                                   !.account_creds =
                                     [a \in DOMAIN db_accounts |->
                                        db_accounts[a].credentials_json],
                                   !.ai = IF accounts = <<>> THEN 0 ELSE 1,
                                   !.pc = IF accounts = <<>> THEN "return" ELSE "account"])
  /\ UNCHANGED <<db_accounts, db_prompts, db_processed, inbox, cycles, triggers,
                 edits, arrived_busy, stop_event, db_settings,
                 start_requested>>

\* mutant: the for loop of line 50 does not advance
RescanAccount(r) == [NoScanLocals(r) EXCEPT !.pc = "account"]

\* the for loop of line 50 moves on (or ends) once _scan_account has returned
\* or the account was skipped
NextAccount(r) ==
  [NoScanLocals(r) EXCEPT !.ai = r.ai + 1,
                          !.pc = IF r.ai + 1 > Len(r.accounts) THEN "return" ELSE "account"]

\* lines 50-56: the rules of the account are read; no active rule skips it
ScanNextAccount(t) ==
  /\ th[t].pc = "account"
  /\ LET r == th[t]
         a == r.accounts[r.ai]
         prompts == SelectSeq(list_prompts(a), IsActivePrompt)
     IN IF prompts = <<>>
          THEN SetThread(t, NextAccount([r EXCEPT !.skipped = @ \cup {a}]))
          ELSE SetThread(t, [r EXCEPT !.account_id = a, !.prompts = prompts,
                                      !.scanned = @ \cup {a}, !.pc = "get_service"])
  /\ UNCHANGED <<db_accounts, db_prompts, db_processed, inbox, status, cycles,
                 triggers, edits, arrived_busy, stop_event, db_settings,
                 start_requested>>

\* _scan_all_accounts returns: the loop goes on to line 36, a run_now thread ends
ScanReturn(t) ==
  /\ th[t].pc = "return"
  /\ SetThread(t, [NoThread EXCEPT !.pc = IF t = LoopThread THEN "wait" ELSE "done",
                                   !.interval = th[t].interval,
                                   !.prev_failed = th[t].failed])
  /\ UNCHANGED <<db_accounts, db_prompts, db_processed, inbox, status, cycles,
                 triggers, edits, arrived_busy, stop_event, db_settings,
                 start_requested>>

\* ---------------------------------------------------------------------------
\* poller._scan_account
\* ---------------------------------------------------------------------------
\* an exception outside the per-email try reaches the handler of lines 142-143
AfterScanException(r) == [r EXCEPT !.pc = "scan_failed"]

\* mutant: no per-email try, the exception reaches the account's handler
EmailExceptionPropagates(r) ==
  [r EXCEPT !.raised = IF @ = 0 THEN r.ei ELSE @, !.pc = "scan_failed"]

\* mutant: a failure of the label call is swallowed and the rule's action runs
LabelFailureSwallowed(r) ==
  [r EXCEPT !.trace = IF r.pc = "rule" THEN @ ELSE Append(@, Event("log_error", 0, TRUE)),
            !.raised = IF @ = 0 THEN r.ei ELSE @,
            !.pc = IF r.pc = "rule" THEN "action" ELSE "mark"]

\* mutant: the try is inside the rule loop, a failure skips only its rule
FailureSkipsRuleOnly(r) ==
  [r EXCEPT !.trace = Append(@, Event("log_error", 0, TRUE)),
            !.email_log = Append(@, LogEntry("ERROR", "Error processing email")),
            !.raised = IF @ = 0 THEN r.ei ELSE @,
            !.pi = @ + 1,
            !.pc = IF r.pi + 1 > Len(r.prompts) THEN "mark" ELSE "rule"]

\* an exception inside the per-email try: the handler of lines 134-135 logs it
\* and control falls through to mark_processed (line 138)
AfterEmailException(r) ==
  [r EXCEPT !.trace = Append(@, Event("log_error", 0, TRUE)),
            !.email_log = Append(@, LogEntry("ERROR", "Error processing email")),
            !.raised = IF @ = 0 THEN r.ei ELSE @,
            !.pc = "mark"]

\* lines 68-75: all candidates were looked up in the ledger
AfterFilter(r) ==
  IF r.new_emails = <<>>
    THEN [r EXCEPT !.emails = <<>>, !.fi = 0, !.pc = "no_new_emails"]
    ELSE [r EXCEPT !.emails = <<>>, !.fi = 0, !.pi = 1, !.label_cache = {},
                   !.pc = "prefetch"]

\* mutant: when the rules of an e-mail are done the loop goes on to the next
\* e-mail without line 138
AfterRuleSkipsMark(r) ==
  IF r.stop \/ r.pi > Len(r.prompts)
    THEN [r EXCEPT !.ei = @ + 1, !.pi = 0, !.stop = FALSE, !.trace = <<>>,
                   !.email_log = <<>>, !.llm_raw = EmptyDict,
                   !.pc = IF r.ei + 1 > Len(r.new_emails)
                            THEN "update_last_scan" ELSE "classify"]
  ELSE [r EXCEPT !.pc = "rule"]

\* lines 94-96: the for loop over the rules ends, or stop breaks it
AfterRule(r) ==
  IF r.stop \/ r.pi > Len(r.prompts) THEN [r EXCEPT !.pc = "mark"]
  ELSE [r EXCEPT !.pc = "rule"]

\* mutant: one request per rule
RequestPerRule(prompts) == Len(prompts)

\* one request is posted per call unless there is no rule (lines 31-32, 56)
RequestsIssued(prompts) == IF prompts = <<>> THEN 0 ELSE 1

RECURSIVE AscSeq(_)
AscSeq(S) ==
  IF S = {} THEN <<>>
  ELSE LET m == CHOOSE x \in S : \A y \in S : x <= y
       IN <<m>> \o AscSeq(S \ {m})

\* gmail_client.fetch_recent_emails: the messages the provider lists for the
\* query, in the provider's order (a listed message stays listed: what keeps
\* it from being handled twice is the ledger, not the listing)
fetch_recent_emails(account_id) == AscSeq(inbox[account_id])

\* lines 63-65: get_service returns or raises; a blob that differs from the
\* one list_accounts read is stored
GetService(t) ==
  /\ th[t].pc = "get_service"
  /\ \E ok \in BOOLEAN :
       LET r == th[t]
           held == r.account_creds[r.account_id]
           got == refreshed_creds(held)
       IN IF ok
            THEN /\ SetThread(t, [r EXCEPT !.refreshed = got, !.pc = "fetch"])
                 /\ db_accounts' = IF got # held
                                     THEN update_account_credentials(r.account_id, got)
                                     ELSE db_accounts
            ELSE /\ SetThread(t, AfterScanException(r))
                 /\ UNCHANGED db_accounts
  /\ UNCHANGED <<db_prompts, db_processed, inbox, status, cycles,
                 triggers, edits, arrived_busy, stop_event, db_settings,
                 start_requested>>

\* line 67
FetchRecentEmails(t) ==
  /\ th[t].pc = "fetch"
  /\ \E ok \in BOOLEAN :
       LET r == th[t]
           emails == fetch_recent_emails(r.account_id)
       IN SetThread(t, IF ~ok THEN AfterScanException(r)
                       ELSE IF emails = <<>> THEN AfterFilter(r)
                       ELSE [r EXCEPT !.emails = emails, !.fi = 1, !.pc = "filter"])
  /\ UNCHANGED <<db_accounts, db_prompts, db_processed, inbox, status, cycles,
                 triggers, edits, arrived_busy, stop_event, db_settings,
                 start_requested>>

\* line 68: one is_processed lookup, each in its own transaction
FilterProcessed(t) ==
  /\ th[t].pc = "filter"
  /\ LET r == th[t]
         e == r.emails[r.fi]
         kept == IF is_processed(r.account_id, e) THEN r.new_emails
                 ELSE Append(r.new_emails, e)
         r2 == [r EXCEPT !.new_emails = kept, !.fi = @ + 1]
     IN SetThread(t, IF r2.fi > Len(r.emails) THEN AfterFilter(r2) ELSE r2)
  /\ UNCHANGED <<db_accounts, db_prompts, db_processed, inbox, status, cycles,
                 triggers, edits, arrived_busy, stop_event, db_settings,
                 start_requested>>

\* mutant: an account without new e-mails returns without the timestamp
NoNewEmailsKeepsStamp(t) ==
  /\ th[t].pc = "no_new_emails"
  /\ SetThread(t, NextAccount(th[t]))
  /\ UNCHANGED <<db_accounts, db_prompts, db_processed, inbox, status, cycles,
                 triggers, edits, arrived_busy, stop_event, db_settings,
                 start_requested>>

\* lines 70-73
NoNewEmails(t) ==
  /\ th[t].pc = "no_new_emails"
  /\ db_accounts' = update_last_scan(th[t].account_id)
  /\ SetThread(t, NextAccount(th[t]))
  /\ UNCHANGED <<db_prompts, db_processed, inbox, status, cycles, triggers, edits,
                 arrived_busy, stop_event, db_settings, start_requested>>

\* one more call of gmail_client.get_or_create_label for the label name
LabelCalled(r, label) == [r EXCEPT !.label_calls = @ (+) SetToBag({label})]

\* mutant: the pre-fetch loop calls the provider for every rule
PrefetchLabelEveryRule(t) ==
  /\ th[t].pc = "prefetch"
  /\ \E ok \in BOOLEAN :
       LET r == LabelCalled(th[t], CurrentPrompt(th[t]).label_name)
           label == CurrentPrompt(r).label_name
           last == r.pi = Len(r.prompts)
           r2 == [r EXCEPT !.label_cache = @ \cup {label},
                           !.pi = IF last THEN 1 ELSE @ + 1,
                           !.ei = IF last THEN 1 ELSE @,
                           !.pc = IF last THEN "classify" ELSE "prefetch"]
       IN SetThread(t, IF ok THEN r2 ELSE AfterScanException(r))
  /\ UNCHANGED <<db_accounts, db_prompts, db_processed, inbox, status, cycles,
                 triggers, edits, arrived_busy, stop_event, db_settings,
                 start_requested>>

\* lines 78-83: one pass of the pre-fetch loop; the provider is called if the
\* cache lacks the rule's label name
PrefetchLabel(t) ==
  /\ th[t].pc = "prefetch"
  /\ \E ok \in BOOLEAN :
       LET r == th[t]
           label == CurrentPrompt(r).label_name
           last == r.pi = Len(r.prompts)
           r2 == [r EXCEPT !.label_cache = @ \cup {label},
                           !.pi = IF last THEN 1 ELSE @ + 1,
                           !.ei = IF last THEN 1 ELSE @,
                           !.pc = IF last THEN "classify" ELSE "prefetch"]
       IN IF label \in r.label_cache THEN ok /\ SetThread(t, r2)
          ELSE SetThread(t, IF ok THEN LabelCalled(r2, label)
                            ELSE AfterScanException(LabelCalled(r, label)))
  /\ UNCHANGED <<db_accounts, db_prompts, db_processed, inbox, status, cycles,
                 triggers, edits, arrived_busy, stop_event, db_settings,
                 start_requested>>

\* lines 90-92
Classify(t) ==
  /\ th[t].pc = "classify"
  /\ \E reply \in LLMReplies :
       LET r == th[t]
       IN SetThread(t, AfterRule(
            [r EXCEPT !.email_results = classify_email_batch(reply, r.prompts),
                      !.email_log = classify_log(reply, r.prompts),
                      !.llm_raw = reply.content,
                      !.llm_requests = @ + RequestsIssued(r.prompts),
                      !.llm_outcome = IF LLMFailed(reply) THEN "failed" ELSE "ok",
                      !.stop = FALSE, !.pi = 1, !.trace = <<>>]))
  /\ UNCHANGED <<db_accounts, db_prompts, db_processed, inbox, status, cycles,
                 triggers, edits, arrived_busy, stop_event, db_settings,
                 start_requested>>

\* lines 94-107, 128-132: the rule the loop is at; a match fetches the label id
\* if the cache lacks it and applies the label
EvaluateRule(t) ==
  /\ th[t].pc = "rule"
  /\ \E got \in BOOLEAN, ok \in BOOLEAN :
       LET r == th[t]
           prompt == CurrentPrompt(r)
           cached == prompt.label_name \in r.label_cache
       IN IF ~should_label(r.email_results, prompt.id)
            THEN got /\ ok /\ SetThread(t, AfterRule(
                   [r EXCEPT !.email_log = Append(@, SkipLog(prompt)), !.pi = @ + 1]))
          ELSE IF ~cached /\ ~got
            THEN ok /\ SetThread(t, AfterEmailException(
                   [LabelCalled(r, prompt.label_name)
                      EXCEPT !.trace = Append(@, Event("get_or_create_label", prompt.id, FALSE))]))
          ELSE (cached => got) /\
               LET called == IF cached THEN r ELSE LabelCalled(r, prompt.label_name)
                   r2 == [called EXCEPT !.label_cache = @ \cup {prompt.label_name},
                                        !.trace = Append(@, Event("apply_label", prompt.id, ok))]
               IN SetThread(t, IF ok THEN [r2 EXCEPT !.pc = "action"]
                               ELSE AfterEmailException(r2))
  /\ UNCHANGED <<db_accounts, db_prompts, db_processed, inbox, status, cycles,
                 triggers, edits, arrived_busy, stop_event, db_settings,
                 start_requested>>

\* lines 110-127: at most one of spam/trash/archive, then the stop flag
ApplyAction(t) ==
  /\ th[t].pc = "action"
  /\ \E ok \in BOOLEAN :
       LET r == th[t]
           prompt == CurrentPrompt(r)
           act == DestructiveAction(prompt)
           called == IF act = "none" THEN r
                     ELSE [r EXCEPT !.trace = Append(@, Event(act, prompt.id, ok))]
       IN /\ act = "none" => ok
          /\ SetThread(t, IF ~ok THEN AfterEmailException(called)
                          ELSE AfterRule([called EXCEPT !.stop = StopAfter(prompt),
                                                        !.email_log = Append(@, LogEntry("INFO", "labeled")),
                                                        !.pi = @ + 1]))
  /\ UNCHANGED <<db_accounts, db_prompts, db_processed, inbox, status, cycles,
                 triggers, edits, arrived_busy, stop_event, db_settings,
                 start_requested>>

\* mutant: the timestamp of line 140 is written inside the for loop of line 87
MarkProcessedStamps(t) ==
  /\ th[t].pc = "mark"
  /\ LET r == th[t]
     IN /\ db_processed' = mark_processed(r.account_id, CurrentEmail(r))
        /\ db_accounts' = update_last_scan(r.account_id)
        /\ SetThread(t, [r EXCEPT !.ei = @ + 1, !.pi = 0, !.stop = FALSE,
                                  !.email_results = EmptyDict, !.trace = <<>>,
                                  !.llm_outcome = "none", !.email_log = <<>>,
                                  !.llm_raw = EmptyDict,
                                  !.pc = IF r.ei + 1 > Len(r.new_emails)
                                           THEN "update_last_scan" ELSE "classify"])
  /\ UNCHANGED <<db_prompts, inbox, status, cycles, triggers, edits,
                 arrived_busy, stop_event, db_settings, start_requested>>

\* line 138, and the for loop of line 87 moves on
MarkProcessed(t) ==
  /\ th[t].pc = "mark"
  /\ LET r == th[t]
     IN /\ db_processed' = mark_processed(r.account_id, CurrentEmail(r))
        /\ SetThread(t, [r EXCEPT !.ei = @ + 1, !.pi = 0, !.stop = FALSE,
                                  !.email_results = EmptyDict, !.trace = <<>>,
                                  !.llm_outcome = "none", !.email_log = <<>>,
                                  !.llm_raw = EmptyDict,
                                  !.pc = IF r.ei + 1 > Len(r.new_emails)
                                           THEN "update_last_scan" ELSE "classify"])
  /\ UNCHANGED <<db_accounts, db_prompts, inbox, status, cycles, triggers, edits,
                 arrived_busy, stop_event, db_settings, start_requested>>

\* line 140
UpdateLastScan(t) ==
  /\ th[t].pc = "update_last_scan"
  /\ db_accounts' = update_last_scan(th[t].account_id)
  /\ SetThread(t, NextAccount(th[t]))
  /\ UNCHANGED <<db_prompts, db_processed, inbox, status, cycles, triggers, edits,
                 arrived_busy, stop_event, db_settings, start_requested>>

\* mutant: the account's failure ends the cycle
ScanFailureEndsCycle(r) ==
  [NoScanLocals(r) EXCEPT !.failed = @ \cup {r.account_id}, !.pc = "return"]

\* lines 142-143: the account's failure is logged and _scan_account returns
AfterScanFailed(r) == NextAccount([r EXCEPT !.failed = @ \cup {r.account_id}])

\* mutant: the handler deactivates the account whose scan failed
ScanFailedDeactivates(t) ==
  /\ th[t].pc = "scan_failed"
  /\ SetThread(t, AfterScanFailed(th[t]))
  /\ db_accounts' = [db_accounts EXCEPT ![th[t].account_id].active = FALSE]
  /\ UNCHANGED <<db_prompts, db_processed, inbox, status, cycles,
                 triggers, edits, arrived_busy, stop_event, db_settings,
                 start_requested>>

ScanFailed(t) ==
  /\ th[t].pc = "scan_failed"
  /\ SetThread(t, AfterScanFailed(th[t]))
  /\ UNCHANGED <<db_accounts, db_prompts, db_processed, inbox, status, cycles,
                 triggers, edits, arrived_busy, stop_event, db_settings,
                 start_requested>>

\* ---------------------------------------------------------------------------
\* storage calls that raise (sqlite3.OperationalError: locked database, full disk)
\* ---------------------------------------------------------------------------
\* positions of _scan_account whose next storage call is inside the try of
\* line 62: update_account_credentials (65), is_processed (68), add_log and
\* update_last_scan (71-72), add_log and mark_processed (135, 138),
\* update_last_scan (140)
CaughtStoragePcs == {"get_service", "filter", "no_new_emails", "mark", "update_last_scan"}

\* positions whose next storage call has no handler around it: list_accounts
\* and add_log (43-47), list_prompts and add_log (51-55), add_log of the
\* account's handler (143)
UncaughtStoragePcs == {"scan_all", "account", "scan_failed"}

\* the call raises inside the try: the handler of lines 142-143 is entered
StorageRaisesInScan(t) ==
  /\ th[t].pc \in CaughtStoragePcs
  /\ th[t].pc = "get_service" => th[t].account_creds[th[t].account_id].expired
  /\ SetThread(t, AfterScanException(th[t]))
  /\ UNCHANGED <<db_accounts, db_prompts, db_processed, inbox, status, cycles,
                 triggers, edits, arrived_busy, stop_event, db_settings,
                 start_requested>>

\* the call raises outside every try: the exception unwinds _scan_all_accounts
\* and, in the scheduler thread, _loop (which has no handler); the thread ends
\* without reaching line 39
StorageRaisesUncaught(t) ==
  /\ th[t].pc \in UncaughtStoragePcs
  /\ SetThread(t, [NoThread EXCEPT !.pc = "crashed"])
  /\ UNCHANGED <<db_accounts, db_prompts, db_processed, inbox, status, cycles,
                 triggers, edits, arrived_busy, stop_event, db_settings,
                 start_requested>>

\* ---------------------------------------------------------------------------
\* specifications
\* ---------------------------------------------------------------------------
ScanStep(t) ==
  \/ ScanAllAccounts(t)
  \/ ScanNextAccount(t)
  \/ GetService(t)
  \/ FetchRecentEmails(t)
  \/ FilterProcessed(t)
  \/ NoNewEmails(t)
  \/ PrefetchLabel(t)
  \/ Classify(t)
  \/ EvaluateRule(t)
  \/ ApplyAction(t)
  \/ MarkProcessed(t)
  \/ UpdateLastScan(t)
  \/ ScanFailed(t)
  \/ ScanReturn(t)

LoopStep == LoopStart \/ LoopIterate \/ LoopWait

\* the whole process: the scheduler loop, run_now threads and the operator
Next ==
  \/ LoopStep
  \/ RunNow
  \/ ApiUpdatePrompt
  \/ \E t \in Threads : ScanStep(t)

Spec == Init /\ [][Next]_vars

\* the scheduler loop alone, over every stored rule table
NextScan == LoopStep \/ ScanStep(LoopThread)

SpecScan == InitScan /\ [][NextScan]_vars

\* the scheduler's life: the loop over several cycles; account 1 may hold an
\* expired token, the last account may be inactive
InitLoop ==
  /\ InitCommon
  /\ db_processed = EmptyBag
  /\ \E expired \in BOOLEAN, active \in BOOLEAN :
       db_accounts = [a \in AccountIds |->
                        [active |-> (a = NumAccounts) => active,
                         last_scan_at |-> 0,
                         credentials_json |-> Blob(1, a = 1 /\ expired)]]
  /\ db_prompts = StoredPrompts
  /\ inbox = [a \in AccountIds |-> IF a = 1 THEN {1} ELSE {}]

LoopThreadStep == LoopStep \/ LoopIterateAgain \/ LoopExit \/ ScanStep(LoopThread)

\* the loop and stop()
NextLoop == LoopThreadStep \/ Stop

\* the scheduler thread is a running thread: it takes its next step
SpecLoop == InitLoop /\ [][NextLoop]_vars /\ WF_vars(LoopThreadStep)

\* the loop, stop() and start()
NextStartStop == LoopThreadStep \/ Stop \/ Start

SpecStartStop == InitLoop /\ [][NextStartStop]_vars /\ WF_vars(LoopThreadStep)

\* the loop and an operator who removes accounts meanwhile
NextDelete ==
  \/ LoopStep
  \/ ScanStep(LoopThread)
  \/ ApiDeleteAccount

SpecDelete == InitLoop /\ [][NextDelete]_vars

\* one installation with mail in every account, before its first cycle or
\* after earlier ones; every call of the cycle returns or raises, storage
\* calls included, and the thread keeps running
InitCycle ==
  /\ InitCommon
  /\ \E ledger \in Ledgers :
       /\ db_processed = SetToBag(ledger)
       /\ db_accounts = AccountsAfter(ledger)
  /\ db_prompts = StoredPrompts
  /\ inbox = [a \in AccountIds |-> IF a = 1 THEN MsgIds ELSE {1}]

NextCycle ==
  \/ LoopStep
  \/ ScanStep(LoopThread)
  \/ StorageRaisesInScan(LoopThread)
  \/ StorageRaisesUncaught(LoopThread)

SpecCycle == InitCycle /\ [][NextCycle]_vars /\ WF_vars(NextCycle)

\* the loop with storage calls that may raise
NextFaults ==
  \/ LoopStep
  \/ LoopIterateAgain
  \/ ScanStep(LoopThread)
  \/ StorageRaisesInScan(LoopThread)
  \/ StorageRaisesUncaught(LoopThread)

SpecFaults == InitLoop /\ [][NextFaults]_vars

\* the loop and the operator who edits rules, settings and accounts meanwhile
NextOperator ==
  \/ LoopStep
  \/ ScanStep(LoopThread)
  \/ ApiUpdatePrompt
  \/ ApiUpdateSettings
  \/ ApiToggleAccount

SpecOperator == InitLoop /\ [][NextOperator]_vars

\* the operator reorders the rules, the process is restarted, the loop starts
InitRestart ==
  /\ InitCommon
  /\ db_processed = EmptyBag
  /\ db_accounts = AccountsAfter({})
  /\ db_prompts \in PromptTables(NumPrompts)
  /\ inbox = [a \in AccountIds |-> {}]

NextRestart == ApiReorderPrompts \/ CreateApp \/ LoopStart

SpecRestart == InitRestart /\ [][NextRestart]_vars

\* ---------------------------------------------------------------------------
\* claims
\* ---------------------------------------------------------------------------
ScanBodies == {t \in Threads : Executing(t)}

\* C1: at most one scan body (_scan_all_accounts) is executing at any time,
\* whatever the interleaving of the loop's cycles and run_now() triggers.
\* The code has no gate: run_now starts a thread on _scan_all_accounts while
\* the loop is inside its own call.
ClaimC1_OneScanBody == Cardinality(ScanBodies) <= 1

\* C2: a trigger (run_now() or a tick of the loop) that arrives while a scan is
\* in flight is dropped: no scan body is ever executed for it.
ClaimC2_BusyTriggerDropped ==
  \A t \in Threads : arrived_busy[t] => ~Executing(t)

\* C3: a message whose (account id, message id) pair is in the processed
\* ledger is never passed to classify_email_batch for that account again, by a
\* later or a concurrently running scan.
ClaimC3_NoReclassify ==
  [][\A t \in Threads :
       (th[t].pc = "classify" /\ th'[t] # th[t])
         => ~is_processed(th[t].account_id, CurrentEmail(th[t]))]_vars

\* ---- helpers of the claims about one e-mail's provider calls ----
DestructiveOps == {"spam_email", "trash_email", "archive_email"}
ProviderOps == DestructiveOps \cup {"apply_label", "get_or_create_label"}

\* the classifier's answer for the i-th rule, read off the returned dict
Matched(r, i) ==
  /\ r.prompts[i].id \in DOMAIN r.email_results
  /\ r.email_results[r.prompts[i].id]

\* positions of the trace that are provider calls for the i-th rule
CallsFor(r, i, ops) ==
  {k \in 1..Len(r.trace) : r.trace[k][1] \in ops /\ r.trace[k][2] = r.prompts[i].id}

Rules(r) == 1..Len(r.prompts)

\* positions of the trace with one of the given operations
EventsOf(r, ops) == {k \in 1..Len(r.trace) : r.trace[k][1] \in ops}

\* C4: an exception while one new e-mail is processed is caught at the e-mail
\* boundary and logged, that e-mail is still marked processed, and every
\* remaining new e-mail of the account is still classified and marked
\* processed in the same cycle.
ClaimC4_EmailFailureIsolated ==
  \A t \in Threads :
    LET r == th[t] IN
    r.raised # 0 =>
      /\ r.pc \in {"classify", "rule", "action", "mark", "update_last_scan"}
      /\ r.ei = r.raised =>
           /\ r.pc = "mark"
           /\ r.trace # <<>>
           /\ r.trace[Len(r.trace)] = Event("log_error", 0, TRUE)
      /\ \A i \in r.raised..(r.ei - 1) :
           is_processed(r.account_id, r.new_emails[i])
      /\ r.llm_requests = IF r.pc \in EmailPcs THEN r.ei ELSE r.ei - 1
      /\ r.pc = "update_last_scan" =>
           /\ r.ei = Len(r.new_emails) + 1
           /\ r.llm_requests = Len(r.new_emails)

WitnessC4 ==
  \E t \in Threads :
    /\ th[t].pc = "update_last_scan"
    /\ th[t].raised = 1
    /\ Len(th[t].new_emails) >= 2
    /\ \A i \in 1..Len(th[t].new_emails) :
         is_processed(th[t].account_id, th[t].new_emails[i])

\* C5: when the classifier fails for an e-mail, classify_email_batch returns
\* false for every rule, no label and no action is applied to that e-mail, the
\* e-mail is still marked processed and the scan goes on to the next e-mail.
ClaimC5_ClassifierFailure ==
  [][\A t \in Threads :
       LET r == th[t] IN
       r.llm_outcome = "failed" =>
         /\ \A i \in Rules(r) :
              /\ r.prompts[i].id \in DOMAIN r.email_results
              /\ ~r.email_results[r.prompts[i].id]
         /\ r.trace = <<>>
         /\ r.pc \in {"rule", "mark"}
         /\ th'[t] # r =>
              IF r.pc = "mark"
                THEN /\ BagIn(<<r.account_id, CurrentEmail(r)>>, db_processed')
                     /\ th'[t].ei = r.ei + 1
                     /\ th'[t].pc = IF r.ei < Len(r.new_emails) THEN "classify"
                                    ELSE "update_last_scan"
                ELSE /\ th'[t].pc \in {"rule", "mark"}
                     /\ th'[t].trace = <<>>
                     /\ th'[t].ei = r.ei]_vars

WitnessC5 ==
  \E t \in Threads :
    /\ th[t].llm_outcome = "failed"
    /\ th[t].pc = "mark"
    /\ th[t].ei < Len(th[t].new_emails)
    /\ Len(th[t].prompts) >= 2

\* C6: if a matching rule A has stop_processing set, no rule ordered after A
\* has its label or action applied to the e-mail in this cycle, even if the
\* classifier matched it too; the rules ordered before A are applied as
\* without A, and the e-mail is still marked processed.
ClaimC6_StopProcessing ==
  \A t \in Threads :
    LET r == th[t] IN
    r.pc \in EmailPcs =>
      /\ \A i \in Rules(r) :
           (Matched(r, i) /\ r.prompts[i].stop_processing) =>
             \A j \in Rules(r) : j > i => CallsFor(r, j, ProviderOps) = {}
      /\ r.stop => r.pc = "mark"
      /\ (r.pc = "mark" /\ EventsOf(r, {"log_error"}) = {}) =>
           \A j \in Rules(r) :
             (\A i \in Rules(r) :
                (i < j) => ~(Matched(r, i) /\ r.prompts[i].stop_processing))
               => (Matched(r, j) <=>
                     \E k \in CallsFor(r, j, {"apply_label"}) : r.trace[k][3])

WitnessC6 ==
  \E t \in Threads :
    LET r == th[t] IN
    /\ r.pc = "mark"
    /\ r.stop
    /\ \E i \in Rules(r), j \in Rules(r) :
         /\ i < j
         /\ Matched(r, i) /\ r.prompts[i].stop_processing
         /\ Matched(r, j)
         /\ CallsFor(r, i, {"apply_label"}) # {}
         /\ CallsFor(r, j, ProviderOps) = {}

\* the action the fixed priority spam > trash > archive selects
PriorityAction(prompt) ==
  CASE prompt.action_spam -> "spam_email"
    [] ~prompt.action_spam /\ prompt.action_trash -> "trash_email"
    [] ~prompt.action_spam /\ ~prompt.action_trash /\ prompt.action_archive -> "archive_email"
    [] OTHER -> "none"

\* C7: for a matched rule and every combination of its action flags at most
\* one of spam/trash/archive is executed on the e-mail, the one the priority
\* spam > trash > archive selects; with no flag set none is executed.
ClaimC7_OneDestructiveAction ==
  \A t \in Threads :
    LET r == th[t] IN
    r.pc \in EmailPcs =>
      \A i \in Rules(r) :
        /\ Cardinality(CallsFor(r, i, DestructiveOps)) <= 1
        /\ \A k \in CallsFor(r, i, DestructiveOps) :
             r.trace[k][1] = PriorityAction(r.prompts[i])
        /\ (i < r.pi /\ Matched(r, i) /\ PriorityAction(r.prompts[i]) # "none") =>
             \E k \in CallsFor(r, i, DestructiveOps) : r.trace[k][3]

WitnessC7 ==
  \E t \in Threads :
    LET r == th[t] IN
    /\ r.pc \in EmailPcs
    /\ \E i \in Rules(r) :
         /\ r.prompts[i].action_spam /\ r.prompts[i].action_archive
         /\ \E k \in CallsFor(r, i, DestructiveOps) :
              r.trace[k] = Event("spam_email", r.prompts[i].id, TRUE)

\* C8: a spam/trash/archive call for (e-mail, rule) is issued only after the
\* apply_label call for the same (e-mail, rule) has returned successfully, and
\* no label or action call is issued for a rule the classifier did not match.
ClaimC8_LabelBeforeAction ==
  \A t \in Threads :
    LET r == th[t] IN
    r.pc \in EmailPcs =>
      \A i \in Rules(r) :
        /\ \A k \in CallsFor(r, i, DestructiveOps) :
             \E j \in CallsFor(r, i, {"apply_label"}) : j < k /\ r.trace[j][3]
        /\ CallsFor(r, i, ProviderOps) # {} => Matched(r, i)

WitnessC8 ==
  \E t \in Threads :
    LET r == th[t] IN
    /\ r.pc \in EmailPcs
    /\ \E i \in Rules(r) :
         /\ \E k \in CallsFor(r, i, DestructiveOps), j \in CallsFor(r, i, {"apply_label"}) :
              j < k /\ r.trace[j][3]
         /\ \E i2 \in Rules(r) : ~Matched(r, i2)

\* C9 as stated: at the end of every scan of one account the number of
\* requests sent to the classification backend equals the number of new
\* e-mails.
ClaimC9_RequestPerNewEmail ==
  \A t \in Threads :
    th[t].pc \in {"update_last_scan", "scan_failed", "no_new_emails"}
      => th[t].llm_requests = Len(th[t].new_emails)

\* C9 amended: in a scan of one account that ends without an account-level
\* failure the number of requests equals the number of new e-mails; in every
\* scan exactly one request has been sent for each e-mail reached so far,
\* whatever the number of rules and whether or not the request failed.
ClaimC9_RequestPerHandledEmail ==
  \A t \in Threads :
    LET r == th[t] IN
    /\ r.pc = "update_last_scan" => r.llm_requests = Len(r.new_emails)
    /\ r.pc \in EmailPcs => r.llm_requests = r.ei
    /\ r.pc = "classify" => r.llm_requests = r.ei - 1
    /\ r.pc \notin (EmailPcs \cup {"classify", "update_last_scan"}) => r.llm_requests = 0

WitnessC9 ==
  \E t \in Threads :
    LET r == th[t] IN
    /\ r.pc = "update_last_scan"
    /\ Len(r.new_emails) >= 2
    /\ Len(r.prompts) >= 2
    /\ r.llm_requests = Len(r.new_emails)

HasActiveRules(a) ==
  \E p \in db_prompts : p.active /\ (p.account_id = a \/ p.account_id = NULL)

\* C10: if fetching or processing one account raises during a cycle, the
\* exception is caught and logged and every other active account that has
\* active rules is still scanned in the same cycle.
ClaimC10_AccountFailureIsolated ==
  \A t \in Threads :
    LET r == th[t] IN
    /\ r.failed # {} => r.pc \in BodyPcs
    /\ r.failed \subseteq r.scanned
    /\ r.pc = "return" =>
         \A a \in AccountIds :
           (db_accounts[a].active /\ HasActiveRules(a)) =>
             /\ a \in r.scanned
             /\ a \notin r.failed => db_accounts[a].last_scan_at >= 1

WitnessC10 ==
  \E t \in Threads :
    LET r == th[t] IN
    /\ r.pc = "return"
    /\ \E f \in r.failed, a \in r.scanned \ r.failed :
         /\ a < f
         /\ db_accounts[a].last_scan_at >= 1
         /\ db_accounts[f].last_scan_at = 0

\* C11: no failure of a storage, mail-provider or classifier call during a
\* cycle ends the scheduler loop: the loop thread is never terminated by an
\* exception, so after a failing cycle it still waits and starts a further
\* cycle. The code catches the failures inside _scan_account only: a storage
\* call of _scan_all_accounts, or the add_log of the account's handler, that
\* raises unwinds _loop.
ClaimC11_LoopSurvivesFailures == th[LoopThread].pc # "crashed"

\* positions of _scan_account before the first new e-mail is handled, and the
\* account's handler
BeforeEmailsPcs == {"get_service", "fetch", "filter", "prefetch", "scan_failed"}

\* C12: when an account's scan fails at the account level (credential
\* refresh, fetch or label pre-fetch raises), no step of that scan, its handler
\* included, changes the account's last_scan_at or its active flag, and the
\* account is scanned again in the next cycle.
ClaimC12_FailedAccountRetried ==
  [][LET r == th[LoopThread] IN
     /\ (r.pc \in BeforeEmailsPcs /\ th'[LoopThread] # r) =>
          /\ db_accounts'[r.account_id].active = db_accounts[r.account_id].active
          /\ db_accounts'[r.account_id].last_scan_at =
               db_accounts[r.account_id].last_scan_at
     /\ r.pc = "scan_failed" => db_accounts[r.account_id].active
     /\ r.pc = "return" => r.prev_failed \subseteq r.scanned]_vars

WitnessC12 ==
  LET r == th[LoopThread] IN
  /\ r.pc = "return"
  /\ \E a \in r.prev_failed :
       /\ a \in r.scanned \ r.failed
       /\ db_accounts[a].active
       /\ db_accounts[a].last_scan_at = 1

\* C13: the loop re-reads the poll interval from the settings table in every
\* cycle: the interval of the wait that follows a cycle (and so next_run) is
\* the poll_interval stored at that moment. The code waits for the constant
\* config.POLL_INTERVAL and never reads the setting.
ClaimC13_IntervalReread ==
  [][(th[LoopThread].pc = "wait" /\ th'[LoopThread].pc # "wait")
       => th'[LoopThread].interval = db_settings]_vars

LoopExited == th[LoopThread].pc = "exited" /\ ~status.running

AfterGetServicePcs == AccountPcs \ {"get_service", "scan_failed"}

\* C15: when get_service returns a credential blob that differs from the one
\* read with the account, the accounts table holds the new blob before any
\* e-mail of the account is fetched, classified or acted on in this scan.
ClaimC15_CredentialsPersistedFirst ==
  \A t \in Threads :
    LET r == th[t] IN
    (r.pc \in AfterGetServicePcs /\ r.refreshed # r.account_creds[r.account_id])
      => db_accounts[r.account_id].credentials_json = r.refreshed

WitnessC15 ==
  \E t \in Threads :
    LET r == th[t] IN
    /\ r.pc \in EmailPcs
    /\ r.account_creds[r.account_id].expired
    /\ r.refreshed # r.account_creds[r.account_id]
    /\ db_accounts[r.account_id].credentials_json = r.refreshed

\* ids of the rules submitted to the classifier
SubmittedIds(r) == {r.prompts[i].id : i \in Rules(r)}

\* C16: after a reply that parsed, a rule whose id the reply lacks is treated
\* as not matched (no label, no action for it), and a key of the reply that is
\* the id of no submitted rule causes no call: every provider call is for a
\* submitted rule that the reply names.
ClaimC16_MissingIdIsFalse ==
  \A t \in Threads :
    LET r == th[t] IN
    (r.pc \in EmailPcs /\ r.llm_outcome = "ok") =>
      /\ \A i \in Rules(r) :
           r.prompts[i].id \notin DOMAIN r.email_results
             => CallsFor(r, i, ProviderOps) = {}
      /\ \A k \in EventsOf(r, ProviderOps) :
           r.trace[k][2] \in SubmittedIds(r) \cap DOMAIN r.email_results

WitnessC16 ==
  \E t \in Threads :
    LET r == th[t] IN
    /\ r.pc = "mark"
    /\ r.llm_outcome = "ok"
    /\ \E k \in DOMAIN r.email_results : k \notin SubmittedIds(r) /\ r.email_results[k]
    /\ \E i \in Rules(r) :
         r.prompts[i].id \notin DOMAIN r.email_results /\ CallsFor(r, i, ProviderOps) = {}
    /\ \E j \in Rules(r) :
         Matched(r, j) /\ \E k \in CallsFor(r, j, {"apply_label"}) : r.trace[k][3]

\* the submitted rule with the given id
RuleOf(r, prompt_id) == r.prompts[CHOOSE i \in Rules(r) : r.prompts[i].id = prompt_id]

\* C17: the provider calls made for one e-mail follow the rules in ascending
\* sort_order, ties broken by ascending id: of two calls for different rules
\* the earlier one is for the rule that comes first by (sort_order, id).
ClaimC17_RulesInSortOrder ==
  \A t \in Threads :
    LET r == th[t] IN
    r.pc \in EmailPcs =>
      \A k \in EventsOf(r, ProviderOps), l \in EventsOf(r, ProviderOps) :
        (k < l /\ r.trace[k][2] # r.trace[l][2]) =>
          LET x == RuleOf(r, r.trace[k][2])
              y == RuleOf(r, r.trace[l][2])
          IN \/ x.sort_order < y.sort_order
             \/ (x.sort_order = y.sort_order /\ x.id < y.id)

WitnessC17 ==
  \E t \in Threads :
    LET r == th[t] IN
    /\ r.pc = "mark"
    /\ \E k \in EventsOf(r, {"apply_label"}), l \in EventsOf(r, {"apply_label"}) :
         /\ k < l
         /\ r.trace[k][3] /\ r.trace[l][3]
         /\ r.trace[k][2] > r.trace[l][2]
         /\ RuleOf(r, r.trace[k][2]).sort_order < RuleOf(r, r.trace[l][2]).sort_order

\* the scope of a stored rule covers the account
InScope(p, a) == p.account_id = a \/ p.account_id = NULL

\* C18: the rules sent to the classifier for, and applied to, the e-mails of
\* an account are exactly the (active) stored rules scoped to that account or
\* global; a rule scoped to another account is never among them.
ClaimC18_RulesInScope ==
  \A t \in Threads :
    LET r == th[t] IN
    r.pc \in AccountPcs =>
      /\ SubmittedIds(r) = {p.id : p \in {q \in db_prompts : q.active /\ InScope(q, r.account_id)}}
      /\ \A i \in Rules(r) : InScope(r.prompts[i], r.account_id)
      /\ \A k \in EventsOf(r, ProviderOps) :
           \E p \in db_prompts : p.id = r.trace[k][2] /\ InScope(p, r.account_id)

WitnessC18 ==
  \E t \in Threads :
    LET r == th[t] IN
    /\ r.pc = "mark"
    /\ EventsOf(r, {"apply_label"}) # {}
    /\ \E p \in db_prompts :
         /\ p.active
         /\ p.account_id \notin {NULL, r.account_id}
         /\ p.id \notin SubmittedIds(r)
         /\ p.id \in DOMAIN r.email_results
         /\ r.email_results[p.id]

Elems(seq) == {seq[i] : i \in 1..Len(seq)}

\* C19: a cycle makes provider and classifier calls only for the accounts
\* whose active flag was set when the cycle read the account list, and only
\* rules whose active flag was set when the account's rules were read are
\* sent to the classifier or applied, whatever the operator toggles meanwhile.
ClaimC19_OnlyActive ==
  [][LET r == th[LoopThread]
         r2 == th'[LoopThread]
     IN /\ (r.pc = "scan_all" /\ r2.pc \in BodyPcs) =>
             Elems(r2.accounts) = {a \in DOMAIN db_accounts : db_accounts[a].active}
        /\ (r.pc \in BodyPcs /\ r2.pc \in BodyPcs) => r2.accounts = r.accounts
        /\ (r.pc = "account" /\ r2.pc = "get_service") =>
             /\ r2.account_id \in Elems(r.accounts)
             /\ \A i \in Rules(r2) : r2.prompts[i] \in db_prompts /\ r2.prompts[i].active
        /\ (r.pc \in AccountPcs /\ r2.pc \in AccountPcs) =>
             /\ r2.account_id = r.account_id
             /\ r2.prompts = r.prompts
        /\ r.pc \in AccountPcs =>
             /\ r.account_id \in Elems(r.accounts)
             /\ \A k \in EventsOf(r, ProviderOps) : r.trace[k][2] \in SubmittedIds(r)]_vars

WitnessC19 ==
  LET r == th[LoopThread] IN
  /\ r.pc = "mark"
  /\ EventsOf(r, {"apply_label"}) # {}
  /\ \E a \in DOMAIN db_accounts : ~db_accounts[a].active /\ a \notin Elems(r.accounts)
  /\ \E p \in db_prompts :
       /\ ~p.active
       /\ p.id \notin SubmittedIds(r)
       /\ p.id \in DOMAIN r.email_results
       /\ r.email_results[p.id]

\* the pairs the provider can list
Pairs == AccountIds \X MsgIds

\* C20: the processed ledger never holds two rows for one (account id,
\* message id); a mark_processed call for a pair already present, also by a
\* second scan running at the same time, leaves the ledger as it is and raises
\* nothing: the scan goes on to the next e-mail or to update_last_scan.
ClaimC20_LedgerUnique ==
  /\ [](\A pair \in Pairs : CopiesIn(pair, db_processed) <= 1)
  /\ [][\A t \in Threads :
          (th[t].pc = "mark" /\ th'[t] # th[t]
             /\ is_processed(th[t].account_id, CurrentEmail(th[t])))
            => /\ db_processed' = db_processed
               /\ th'[t].pc \in {"classify", "update_last_scan"}]_vars

WitnessC20 ==
  \E t \in Threads, u \in Threads :
    /\ t # u
    /\ th[t].pc = "update_last_scan" /\ th[u].pc = "update_last_scan"
    /\ th[t].account_id = th[u].account_id
    /\ th[t].new_emails # <<>> /\ th[t].new_emails = th[u].new_emails
    /\ \A i \in 1..Len(th[t].new_emails) :
         CopiesIn(<<th[t].account_id, th[t].new_emails[i]>>, db_processed) = 1

\* C21: when no account is active, a scan cycle is a no-op apart from logging:
\* _scan_all_accounts returns at line 48 without entering _scan_account, so no
\* mail-provider call and no classifier call is made, and no account's
\* last_scan_at or credentials and no processed record changes.
ClaimC21_NoActiveAccountNoOp ==
  [][LET r == th[LoopThread]
         r2 == th'[LoopThread]
     IN /\ (r.pc = "scan_all" /\ r2 # r
              /\ \A a \in DOMAIN db_accounts : ~db_accounts[a].active) =>
             /\ r2.pc = "return"
             /\ r2.accounts = <<>>
             /\ UNCHANGED <<db_accounts, db_processed, db_prompts, inbox>>
        /\ (r.pc = "return" /\ r.accounts = <<>>) =>
             /\ r.scanned = {} /\ r.skipped = {} /\ r.failed = {}
             /\ r.llm_requests = 0 /\ r.trace = <<>> /\ r.label_cache = {}
             /\ r2 # r =>
                  /\ r2.pc = "wait"
                  /\ UNCHANGED <<db_accounts, db_processed, db_prompts, inbox>>]_vars

WitnessC21 ==
  /\ th[LoopThread].pc = "return"
  /\ th[LoopThread].accounts = <<>>
  /\ cycles >= 1
  /\ \A a \in DOMAIN db_accounts : ~db_accounts[a].active

\* C22: for an active account with no active rule (own or global) a cycle
\* takes the continue of line 54: no classifier call and no provider call is
\* made for that account, no message is marked processed and the account's
\* last-scan timestamp stays as it was; _scan_account runs only for accounts
\* that have an active rule.
ClaimC22_NoActiveRuleSkips ==
  [][LET r == th[LoopThread]
         r2 == th'[LoopThread]
     IN /\ (r.pc = "account" /\ r2 # r /\ ~HasActiveRules(r.accounts[r.ai])) =>
             /\ r2.pc = IF r.ai < Len(r.accounts) THEN "account" ELSE "return"
             /\ r2.ai = r.ai + 1
             /\ r2.scanned = r.scanned
             /\ r2.skipped = r.skipped \cup {r.accounts[r.ai]}
             /\ r2.llm_requests = 0 /\ r2.trace = <<>> /\ r2.label_cache = {}
             /\ UNCHANGED <<db_accounts, db_processed, inbox>>
        /\ r.pc \in AccountPcs =>
             /\ HasActiveRules(r.account_id)
             /\ r.account_id \notin r.skipped
             /\ r.prompts # <<>>]_vars

WitnessC22 ==
  LET r == th[LoopThread] IN
  /\ r.pc = "return"
  /\ \E a \in r.skipped :
       /\ db_accounts[a].active
       /\ ~HasActiveRules(a)
       /\ inbox[a] # {}
       /\ \A m \in inbox[a] : ~is_processed(a, m)
       /\ db_accounts[a].last_scan_at = 0
  /\ r.scanned # {}

\* C23: when every e-mail the provider lists for an account is already in the
\* processed ledger, or none is listed, the scan of that account updates
\* last_scan_at and returns: no classifier call, no label fetch-or-create call
\* and no call that modifies a message is made, and the ledger is unchanged.
ClaimC23_NoNewEmails ==
  [][LET r == th[LoopThread]
         r2 == th'[LoopThread]
         a == r.account_id
     IN /\ (r.pc \in {"fetch", "filter"} /\ r2 # r /\ r2.pc # "scan_failed"
              /\ \A m \in inbox[a] : is_processed(a, m)) =>
             /\ r2.pc \in {"filter", "no_new_emails"}
             /\ r2.new_emails = <<>>
        /\ r.pc = "no_new_emails" =>
             /\ r.new_emails = <<>>
             /\ \A m \in inbox[a] : is_processed(a, m)
             /\ r.llm_requests = 0 /\ r.trace = <<>> /\ r.label_cache = {}
             /\ r2 # r =>
                  /\ db_accounts'[a].last_scan_at = db_accounts[a].last_scan_at + 1
                  /\ \A b \in DOMAIN db_accounts \ {a} : db_accounts'[b] = db_accounts[b]
                  /\ db_accounts'[a].credentials_json = db_accounts[a].credentials_json
                  /\ db_accounts'[a].active = db_accounts[a].active
                  /\ UNCHANGED <<db_processed, inbox>>
                  /\ r2.pc \in {"account", "return"}
                  /\ r2.llm_requests = 0 /\ r2.trace = <<>>
        /\ r.pc \in {"prefetch", "classify"} \cup EmailPcs => r.new_emails # <<>>]_vars

\* the scan of an account whose only listed e-mail was handled by the cycle
\* before, after the scan of an account for which nothing is listed
WitnessC23 ==
  LET r == th[LoopThread] IN
  /\ r.pc = "no_new_emails"
  /\ inbox[r.account_id] # {}
  /\ \E b \in DOMAIN db_accounts :
       /\ inbox[b] = {}
       /\ b \in r.scanned
       /\ db_accounts[b].last_scan_at = cycles
       /\ \A m \in MsgIds : ~is_processed(b, m)

\* the last_scan_at column
Stamps == [a \in DOMAIN db_accounts |-> db_accounts[a].last_scan_at]

\* C24: in a scan of one account that has at least one new e-mail and ends
\* without an account-level failure, last_scan_at is written exactly once, by
\* the last step of the scan, and only after every new e-mail of the account
\* has been marked processed; no earlier step of the scan writes it, and such
\* a scan ends only by that write or by the account's failure handler.
ClaimC24_StampAfterAllMarked ==
  [][LET r == th[LoopThread]
         r2 == th'[LoopThread]
         a == r.account_id
     IN (r.pc \in AccountPcs /\ r.new_emails # <<>> /\ r2 # r) =>
          /\ r.pc # "update_last_scan" => Stamps' = Stamps
          /\ r.pc = "update_last_scan" =>
               /\ r.ei = Len(r.new_emails) + 1
               /\ \A i \in 1..Len(r.new_emails) : is_processed(a, r.new_emails[i])
               /\ r2.pc # "scan_failed" =>
                    /\ Stamps' = [Stamps EXCEPT ![a] = @ + 1]
                    /\ r2.pc \notin AccountPcs
          /\ r2.pc \notin AccountPcs => r.pc \in {"update_last_scan", "scan_failed"}
          /\ (r.pc = "scan_failed" \/ r2.pc = "scan_failed") => Stamps' = Stamps]_vars

\* a cycle has scanned an account with two new e-mails: both are in the
\* ledger and the timestamp was written once
WitnessC24 ==
  LET r == th[LoopThread] IN
  /\ r.pc \in {"account", "return"}
  /\ \E a \in r.scanned \ r.failed :
       /\ Cardinality(inbox[a]) >= 2
       /\ \A m \in inbox[a] : is_processed(a, m)
       /\ db_accounts[a].last_scan_at = 1

\* the rule loop of lines 94-132 is over for the current e-mail: it ran out of
\* rules, stop broke it, or the handler of lines 134-135 took over
RulesDone(r) ==
  \/ r.stop
  \/ r.pi > Len(r.prompts)
  \/ (r.trace # <<>> /\ r.trace[Len(r.trace)] = Event("log_error", 0, TRUE))

\* C25: within one cycle processing is strictly sequential. An e-mail is
\* marked processed only after its classification has returned and its rule
\* loop (every label and action attempt) is over; the classification of the
\* next e-mail starts only after every earlier new e-mail was marked; the
\* for loop of line 50 moves to the next account only from a point at which
\* the previous account's scan has returned or the account was skipped.
ClaimC25_Sequential ==
  [][LET r == th[LoopThread]
         r2 == th'[LoopThread]
         a == r.account_id
     IN /\ db_processed' # db_processed =>
             /\ r.pc = "mark"
             /\ r.llm_requests = r.ei
             /\ RulesDone(r)
             /\ db_processed' = db_processed (+) SetToBag({<<a, CurrentEmail(r)>>})
        /\ (r.pc = "classify" /\ r2 # r) =>
             /\ r.llm_requests = r.ei - 1
             /\ r.trace = <<>>
             /\ \A i \in 1..(r.ei - 1) : is_processed(a, r.new_emails[i])
             /\ r2.ei = r.ei
        /\ r2.ei > r.ei => r.pc \in {"mark", "prefetch"}
        /\ (r.pc \in AccountPcs /\ r2.pc \in AccountPcs) =>
             /\ r2.account_id = r.account_id
             /\ r2.ai = r.ai
        /\ r2.ai # r.ai =>
             /\ r.pc \in {"scan_all", "account", "no_new_emails", "update_last_scan",
                          "scan_failed", "return"}
             /\ r2.account_id = NULL
             /\ r2.pc \in {"account", "return", "wait"}
        /\ (r2.pc = "get_service" /\ r2 # r) =>
             /\ r.pc = "account"
             /\ r.account_id = NULL
             /\ r.new_emails = <<>>]_vars

\* the second e-mail of the second account is about to be classified
WitnessC25 ==
  LET r == th[LoopThread] IN
  /\ r.pc = "classify"
  /\ r.ei = 2
  /\ r.ai = 2
  /\ is_processed(r.account_id, r.new_emails[1])
  /\ ~is_processed(r.account_id, r.new_emails[2])
  /\ Cardinality(r.scanned) = 2
  /\ db_accounts[r.accounts[1]].last_scan_at >= 1

\* the label names the rules of the scan refer to
LabelNames(r) == {r.prompts[i].label_name : i \in 1..Len(r.prompts)}

\* C26: in one account scan the label cache is built once, before the first
\* e-mail is classified, and gmail_client.get_or_create_label is called at
\* most once per distinct label name of the account's rules, however many
\* rules share the name and however many e-mails match; a scan starts with an
\* empty cache, whatever an earlier scan has fetched.
ClaimC26_LabelCacheOncePerScan ==
  /\ [](LET r == th[LoopThread] IN
        /\ BagToSet(r.label_calls) \subseteq LabelNames(r)
        /\ \A l \in BagToSet(r.label_calls) : CopiesIn(l, r.label_calls) = 1
        /\ r.label_cache \subseteq BagToSet(r.label_calls)
        /\ r.pc \in ({"classify", "update_last_scan"} \cup EmailPcs) =>
             /\ r.label_cache = LabelNames(r)
             /\ BagToSet(r.label_calls) = LabelNames(r)
        /\ r.pc \in {"get_service", "fetch", "filter", "no_new_emails"} =>
             /\ r.label_cache = {}
             /\ r.label_calls = EmptyBag)
  /\ [][LET r == th[LoopThread]
            r2 == th'[LoopThread]
        IN /\ (r.pc \in ({"classify"} \cup EmailPcs) /\ r2.pc \in AccountPcs) =>
                /\ r2.label_cache = r.label_cache
                /\ r2.label_calls = r.label_calls
           /\ (r.pc = "account" /\ r2.pc = "get_service") =>
                /\ r2.label_cache = {}
                /\ r2.label_calls = EmptyBag]_vars

\* the second e-mail of the second account scanned, under two rules that
\* share a label name which the scan of the first account fetched as well
WitnessC26 ==
  LET r == th[LoopThread] IN
  /\ r.pc = "mark"
  /\ r.ei = 2
  /\ Len(r.prompts) = 2
  /\ r.prompts[1].label_name = r.prompts[2].label_name
  /\ CopiesIn(r.prompts[1].label_name, r.label_calls) = 1
  /\ Cardinality(EventsOf(r, {"apply_label"})) = 2
  /\ \E b \in r.scanned \ (r.failed \cup {r.account_id}) :
       /\ db_accounts[b].last_scan_at >= 1
       /\ \E m \in inbox[b], p \in db_prompts :
            /\ is_processed(b, m)
            /\ p.active /\ p.account_id = NULL
            /\ p.label_name = r.prompts[1].label_name

\* positions of the current e-mail's log entries at the given level
EntriesAt(r, level) == {k \in 1..Len(r.email_log) : r.email_log[k][1] = level}

\* the request for the current e-mail failed (timeout, connection, HTTP status)
RequestFailed(r) ==
  /\ r.email_log # <<>>
  /\ r.email_log[1] = LogEntry("ERROR", "LLM request failed")

\* C27: when the classifier request for an e-mail times out (or fails
\* otherwise) exactly one ERROR entry is logged for that e-mail, the one of
\* classify_email_batch; every rule is then skipped with a DEBUG entry, no
\* label and no action is applied, and the e-mail is marked processed.
ClaimC27_TimeoutLoggedOnce ==
  /\ [](LET r == th[LoopThread] IN
        (r.pc \in EmailPcs /\ RequestFailed(r)) =>
          /\ EntriesAt(r, "ERROR") = {1}
          /\ \A k \in 2..Len(r.email_log) : r.email_log[k] = LogEntry("DEBUG", "Skipped")
          /\ Len(r.email_log) = r.pi
          /\ r.trace = <<>>
          /\ r.pc \in {"rule", "mark"}
          /\ r.pc = "mark" => Len(r.email_log) = 1 + Len(r.prompts))
  /\ [][LET r == th[LoopThread] IN
        (r.pc = "mark" /\ RequestFailed(r) /\ th'[LoopThread] # r) =>
          /\ BagIn(<<r.account_id, CurrentEmail(r)>>, db_processed')
          /\ th'[LoopThread].pc \in {"classify", "update_last_scan"}]_vars

\* the request for the first of two new e-mails failed, two rules were
\* skipped, and the e-mail is about to be marked
WitnessC27 ==
  LET r == th[LoopThread] IN
  /\ r.pc = "mark"
  /\ RequestFailed(r)
  /\ r.ei = 1 /\ Len(r.new_emails) >= 2
  /\ Len(r.prompts) >= 2
  /\ Cardinality(EntriesAt(r, "DEBUG")) = Len(r.prompts)
  /\ ~is_processed(r.account_id, CurrentEmail(r))

\* C28: a rule is treated as matched for an e-mail only if the reply maps the
\* rule's id to the JSON boolean true; a value that is no boolean (the string
\* "false") never produces a label or an action for the rule. The code
\* coerces each value with bool() (llm_client.py:91), so a non-empty string
\* counts as true.
ClaimC28_OnlyBooleanTrueMatches ==
  LET r == th[LoopThread] IN
  r.pc \in EmailPcs =>
    \A i \in Rules(r) :
      CallsFor(r, i, ProviderOps) # {} =>
        /\ r.prompts[i].id \in DOMAIN r.llm_raw
        /\ r.llm_raw[r.prompts[i].id] = "true"

\* positions of the trace that are provider calls which raised
FailedCalls(r) == {k \in EventsOf(r, ProviderOps) : ~r.trace[k][3]}

\* C29: if a provider call fails while a matched rule is applied (the label
\* or the spam/trash/archive action), no further provider call is made for
\* that e-mail in this cycle: the handler of lines 134-135 logs the failure,
\* the remaining rules of the e-mail are not evaluated, the e-mail is marked
\* processed, and the following e-mails are classified and evaluated under
\* the same rules from the first rule on.
ClaimC29_ProviderFailureEndsEmail ==
  /\ [](LET r == th[LoopThread] IN
        r.pc \in EmailPcs =>
          \A k \in FailedCalls(r) :
            /\ r.pc = "mark"
            /\ k = Len(r.trace) - 1
            /\ r.trace[Len(r.trace)] = Event("log_error", 0, TRUE)
            /\ r.pi \in Rules(r)
            /\ r.trace[k][2] = r.prompts[r.pi].id
            /\ \A j \in Rules(r) : j > r.pi => CallsFor(r, j, ProviderOps) = {})
  /\ [][LET r == th[LoopThread]
            r2 == th'[LoopThread]
        IN /\ (r.pc = "mark" /\ FailedCalls(r) # {} /\ r2 # r) =>
                /\ BagIn(<<r.account_id, CurrentEmail(r)>>, db_processed')
                /\ r2.prompts = r.prompts
                /\ r2.ei = r.ei + 1
                /\ r2.trace = <<>> /\ ~r2.stop
                /\ r2.pc = IF r.ei < Len(r.new_emails) THEN "classify"
                           ELSE "update_last_scan"
           /\ (r.pc = "classify" /\ r.raised # 0 /\ r2 # r) =>
                /\ r2.prompts = r.prompts
                /\ r2.pc = "rule" /\ r2.pi = 1
           /\ (r.pc \in {"rule", "action"} /\ r.raised \notin {0, r.ei}
                 /\ r2.pc \in {"rule", "action"}) =>
                r2.pi \in {r.pi, r.pi + 1}]_vars

\* the action of the first rule failed for the first of two new e-mails; the
\* second rule matched as well and got no call
WitnessC29 ==
  LET r == th[LoopThread] IN
  /\ r.pc = "mark"
  /\ r.ei = 1 /\ Len(r.new_emails) >= 2
  /\ Len(r.prompts) >= 2
  /\ r.pi = 1
  /\ \E k \in FailedCalls(r) : r.trace[k][1] \in DestructiveOps
  /\ Matched(r, 2)
  /\ CallsFor(r, 2, ProviderOps) = {}

\* the ids of the rows list_prompts returns, in the order returned
ListedIds(rows) == [i \in 1..Len(rows) |-> rows[i].id]

\* C30: the evaluation order set by reorder_prompts survives a restart:
\* init_db() (with _migrate) run after a reorder leaves the sequence
\* list_prompts returns unchanged, for every account. reorder_prompts gives
\* the first rule of the list sort_order 0 and _migrate rewrites every
\* sort_order 0 to the row's id, which moves that rule.
ClaimC30_OrderSurvivesRestart ==
  [][(CreateApp /\ edits >= 1) =>
       \A a \in AccountIds :
         ListedIds(list_prompts(a))' = ListedIds(list_prompts(a))]_vars

\* a scheduler loop is running and is not told to stop
LoopRunning == LoopAlive /\ ~stop_event

\* C31: after stop() followed by start() a scheduler loop is eventually
\* running, also when start() is called while the previous loop thread is
\* still alive. start() returns at line 18 when the thread is alive and leaves
\* the stop event set, so the old thread exits and no loop is started.
ClaimC31_StartAfterStopRuns == start_requested ~> LoopRunning

\* C32: every row of the processed ledger refers to an account that exists:
\* whatever the interleaving of delete_account with a scan of that account in
\* flight, no processed_emails row remains for the deleted account id. The
\* scan holds the account in a local and marks its e-mails after the delete.
ClaimC32_LedgerRefersToAccounts ==
  \A row \in BagToSet(db_processed) : row[1] \in DOMAIN db_accounts

\* a scheduler thread is inside the while loop of _loop (past line 33, before
\* line 39)
InLoop == th[LoopThread].pc \notin {"idle", "loop_start", "exited", "crashed"}

\* C33: get_status().running is true exactly while a scheduler loop thread
\* is alive: true once the loop has started, false when the loop has exited
\* for any reason, never true when no loop thread runs. Line 39 is reached
\* only when the while condition fails: a thread ended by an exception
\* leaves running true.
ClaimC33_RunningIffLoopAlive == status.running <=> InLoop

NoRepeats(seq) == \A i \in DOMAIN seq, j \in DOMAIN seq : i # j => seq[i] # seq[j]

\* C34: every scan cycle terminates. With finitely many accounts, candidate
\* e-mails and rules, and every storage, provider and classifier call
\* returning or raising, _scan_all_accounts is left (by its return, or by an
\* exception of a storage call outside _scan_account); on the way each account
\* is visited at most once and each new e-mail is handled at most once.
ClaimC34_CycleTerminates ==
  /\ (th[LoopThread].pc = "scan_all") ~> (th[LoopThread].pc \in {"wait", "crashed"})
  /\ [](LET r == th[LoopThread] IN
        /\ NoRepeats(r.accounts)
        /\ NoRepeats(r.emails)
        /\ NoRepeats(r.new_emails)
        /\ r.scanned \cap r.skipped = {})
  /\ [][LET r == th[LoopThread]
            r2 == th'[LoopThread]
        IN /\ (r.pc = "account" /\ r2 # r) =>
                /\ r.accounts[r.ai] \notin (r.scanned \cup r.skipped)
                /\ r2.pc # "crashed" =>
                     r.accounts[r.ai] \in (r2.scanned \cup r2.skipped)
           /\ (r.pc \in BodyPcs /\ r2.pc \in BodyPcs) =>
                /\ r2.accounts = r.accounts
                /\ r2.ai \in {r.ai, r.ai + 1}
           /\ (r.pc \in AccountPcs /\ r2.pc \in AccountPcs) =>
                /\ r2.ei \in {r.ei, r.ei + 1}
                /\ r.pc \in ({"prefetch", "classify"} \cup EmailPcs) =>
                     r2.new_emails = r.new_emails
           /\ (r.pc = "classify" /\ r2 # r) =>
                ~is_processed(r.account_id, CurrentEmail(r))]_vars

\* a cycle is over: every account was scanned once and every e-mail handled
WitnessC34 ==
  /\ th[LoopThread].pc = "wait"
  /\ cycles = 1
  /\ Cardinality(inbox[1]) >= 2
  /\ \A a \in AccountIds :
       /\ db_accounts[a].last_scan_at = 1
       /\ \A m \in inbox[a] : CopiesIn(<<a, m>>, db_processed) = 1

====
